---- MODULE Spec2Model ----
(***************************************************************************)
(* Model of src/app.py: the POST /webhook handler (handle_message) of the  *)
(* Messenger auto-responder, with the helpers it calls                      *)
(* (find_reply_from_sheet, get_sheet_data, get_user_name, send_message,     *)
(* send_welcome).                                                           *)
(*                                                                          *)
(* Strings are sequences of one-character strings, so that lower(),         *)
(* strip() and the substring test `in` are computed character by            *)
(* character.  The program's long literal messages are kept as one chunk.   *)
(* A Python value that may be None is a record [t, v] with t = "none" or    *)
(* t = "str"; a call that may raise returns t = "raise".  Only the ASCII    *)
(* letters are cased.                                                       *)
(*                                                                          *)
(* One delivery is modelled.  The shape of the payload (how many entries,   *)
(* how many messaging sub-events in each) is fixed when it is POSTed; the   *)
(* content of a sub-event is drawn when the loop binds it, which gives the  *)
(* same behaviours as drawing it at POST time because no step of the        *)
(* handler reads a sub-event before its own iteration.                      *)
(***************************************************************************)
EXTENDS Integers, Sequences, FiniteSets, TLC

\* ------------------------------------------------------------- bounds
\* Sub-events in one delivery, and entries in one delivery.
MaxEvents == 2
\* Fragments concatenated into one user text.
MaxFrags == 2
\* Data rows (below the header row) in the sheet.
MaxRows == 2

\* ------------------------------------------------------------ strings
Upper == <<"A","B","C","D","E","F","G","H","I","J","K","L","M",
           "N","O","P","Q","R","S","T","U","V","W","X","Y","Z">>
LowerLetters == <<"a","b","c","d","e","f","g","h","i","j","k","l","m",
                  "n","o","p","q","r","s","t","u","v","w","x","y","z">>
Whitespace == {" ", "\t", "\n", "\r"}

\* str.lower() on one character.
LowerChar(c) ==
    IF \E k \in 1..26 : Upper[k] = c
    THEN LowerLetters[CHOOSE k \in 1..26 : Upper[k] = c]
    ELSE c

\* str.lower()
Lower(s) == [k \in 1..Len(s) |-> LowerChar(s[k])]

\* str.strip(): leading and trailing whitespace removed.
Strip(s) ==
    LET keep == {k \in 1..Len(s) : s[k] \notin Whitespace}
    IN  IF keep = {} THEN <<>>
        ELSE LET lo == CHOOSE k \in keep : \A m \in keep : k <= m
                 hi == CHOOSE k \in keep : \A m \in keep : k >= m
             IN  SubSeq(s, lo, hi)

\* Python's `needle in hay` on strings.
Contains(needle, hay) ==
    \E k \in 0..(Len(hay) - Len(needle)) :
        SubSeq(hay, k + 1, k + Len(needle)) = needle

None == [t |-> "none", v |-> <<>>]
Str(s) == [t |-> "str", v |-> s]
Raise == [t |-> "raise", v |-> <<>>]

\* Python truthiness of an optional string: None and "" are falsy.
Truthy(x) == x.t = "str" /\ x.v # <<>>

\* How an f-string renders a value: None renders as the text "None".
Format(x) == IF x.t = "none" THEN <<"N","o","n","e">> ELSE x.v

\* ------------------------------------------------------ configuration
FALLBACK_MESSAGE ==
    <<"Sorry, I didn't quite understand that. (sweat-smile) Please choose from the options below or contact us directly!">>

GREETING_KEYWORDS ==
    << <<"h","i">>, <<"h","e","l","l","o">>, <<"h","e","y">>,
       <<"s","t","a","r","t">>, <<"h","e","l","p">>, <<"m","e","n","u">> >>

QUICK_REPLY_BUTTONS ==
    << [title |-> "(money) Pricing",    payload |-> "PRICE"],
       [title |-> "(clock) Our Hours",  payload |-> "HOURS"],
       [title |-> "(pin) Location",     payload |-> "LOCATION"],
       [title |-> "(phone) Contact Us", payload |-> "CONTACT"] >>

PAYLOAD_REPLIES ==
    [PRICE    |-> <<"(money) Our pricing starts at $99/month. Visit our website at yourwebsite.com for full details!">>,
     HOURS    |-> <<"(clock) We're open Monday to Friday, 9:00 AM - 6:00 PM.">>,
     LOCATION |-> <<"(pin) You can find us at 123 Main Street, Manila. We'd love to see you!">>,
     CONTACT  |-> <<"(phone) You can reach us at hello@yourbusiness.com or call +63 900 000 0000.">>]

THERE == <<"t","h","e","r","e">>


\* ------------------------------------------------------------- inputs
Senders == {"u1"}

\* Payload codes a quick-reply tap may carry: the configured ones and an
\* unknown one.
PayloadCodes == (DOMAIN PAYLOAD_REPLIES) \cup {"UNKNOWN"}

\* User texts are concatenations of these fragments.
Fragments == { <<"H","i">>, <<"m","E","N","U">>, <<"P">>, <<" ">> }

RECURSIVE Flatten(_)
Flatten(fs) == IF fs = <<>> THEN <<>> ELSE Head(fs) \o Flatten(Tail(fs))

Texts ==
    { Flatten(fs) : fs \in UNION { [1..n -> Fragments] : n \in 0..MaxFrags } }

\* A messaging sub-event, with sender.id as the platform always sends it:
\* "message" may be missing; a message may carry is_echo, quick_reply.payload
\* and text.  Fields that are absent are left at a default.
NoMessage(s) ==
    [sender |-> s, hasMessage |-> FALSE, is_echo |-> FALSE,
     hasQuickReply |-> FALSE, payload |-> "", hasText |-> FALSE, text |-> <<>>]

Events ==
    { NoMessage(s) : s \in Senders }
    \cup { [sender |-> s, hasMessage |-> TRUE, is_echo |-> e,
            hasQuickReply |-> q # "", payload |-> q,
            hasText |-> t.t = "str", text |-> t.v] :
           s \in Senders, e \in BOOLEAN, q \in PayloadCodes \cup {""},
           t \in {None} \cup { Str(x) : x \in Texts } }

\* Shapes of a page payload: the number of messaging sub-events of each entry
\* (an entry without sub-events, or entries with some).
RECURSIVE Sum(_)
Sum(ns) == IF ns = <<>> THEN 0 ELSE Head(ns) + Sum(Tail(ns))

Shapes ==
    { <<0>> } \cup
    { ns \in UNION { [1..n -> 1..MaxEvents] : n \in 0..MaxEvents } :
        Sum(ns) <= MaxEvents }

\* The sheet, as sheet.get_all_values() returns it: a header row, then rows.
HEADER == << <<"Keyword">>, <<"Reply">> >>

Rows ==
    { << <<" ","P">>, <<"a">> >>,
      << <<"p","p">>, <<" ","b"," ">> >>,
      << <<" ">>, <<"c">> >>,
      << <<"p">>, <<>> >>,
      << <<"p","p">> >> }

Sheets ==
    { <<>> } \cup
    { <<HEADER>> \o rs : rs \in UNION { [1..n -> Rows] : n \in 0..MaxRows } }

\* What the Sheets API does when asked: raises, or returns the values.
SheetOutcomes ==
    { [raises |-> TRUE, values |-> <<>>] }
    \cup { [raises |-> FALSE, values |-> v] : v \in Sheets }

\* What the Graph API does when asked for the profile: the request raises,
\* or a response comes back with a status and a body that is not JSON, or a
\* JSON object with or without first_name (a string or null).
ProfileOutcomes ==
    { [raises |-> TRUE,  status_code |-> 0,   json_ok |-> FALSE, has_first_name |-> FALSE, first_name |-> None],
      [raises |-> FALSE, status_code |-> 500, json_ok |-> TRUE,  has_first_name |-> FALSE, first_name |-> None],
      [raises |-> FALSE, status_code |-> 200, json_ok |-> FALSE, has_first_name |-> FALSE, first_name |-> None],
      [raises |-> FALSE, status_code |-> 200, json_ok |-> TRUE,  has_first_name |-> FALSE, first_name |-> None],
      [raises |-> FALSE, status_code |-> 200, json_ok |-> TRUE,  has_first_name |-> TRUE,  first_name |-> Str(<<"M","a","r","i","a">>)],
      [raises |-> FALSE, status_code |-> 200, json_ok |-> TRUE,  has_first_name |-> TRUE,  first_name |-> Str(<<>>)],
      [raises |-> FALSE, status_code |-> 200, json_ok |-> TRUE,  has_first_name |-> TRUE,  first_name |-> None] }

\* What the Send API does: the request raises, or answers with a status.
SendOutcomes ==
    { [raises |-> TRUE,  status_code |-> 0],
      [raises |-> FALSE, status_code |-> 200],
      [raises |-> FALSE, status_code |-> 400] }

\* ---------------------------------------------------------- functions
\* get_sheet_data: the values without the header row (rows[1:]).
get_sheet_data(values) == IF values = <<>> THEN <<>> ELSE Tail(values)

\* The loop of find_reply_from_sheet: the reply of the first usable row.
RECURSIVE FirstMatch(_, _)
FirstMatch(rows, user_message_lower) ==
    IF rows = <<>> THEN None
    ELSE LET row == Head(rows)
         IN  IF Len(row) < 2
             THEN FirstMatch(Tail(rows), user_message_lower)
             ELSE LET keyword == Lower(Strip(row[1]))
                      reply   == Strip(row[2])
                  IN  IF keyword # <<>> /\ Contains(keyword, user_message_lower)
                      THEN Str(reply)
                      ELSE FirstMatch(Tail(rows), user_message_lower)

\* Mutant of FirstMatch's use: the last usable row wins instead of the first.
RECURSIVE LastMatch(_, _)
LastMatch(rows, user_message_lower) ==
    IF rows = <<>> THEN None
    ELSE LET later == LastMatch(Tail(rows), user_message_lower)
         IN  IF later.t = "str" THEN later
             ELSE FirstMatch(<<Head(rows)>>, user_message_lower)

find_reply_last_match(user_message, outcome) ==
    IF outcome.raises THEN None
    ELSE LastMatch(get_sheet_data(outcome.values), Lower(user_message))

\* Mutant: no try/except around the lookup, so its exception propagates.
find_reply_propagates(user_message, outcome) ==
    IF outcome.raises THEN Raise
    ELSE FirstMatch(get_sheet_data(outcome.values), Lower(user_message))

\* find_reply_from_sheet: any exception of the lookup is caught and logged.
find_reply_from_sheet(user_message, outcome) ==
    IF outcome.raises THEN None
    ELSE FirstMatch(get_sheet_data(outcome.values), Lower(user_message))

\* get_user_name: response.json().get("first_name", "there") on status 200,
\* "there" on any other status and on any exception.
get_user_name(outcome) ==
    IF outcome.raises THEN Str(THERE)
    ELSE IF outcome.status_code = 200
         THEN IF ~outcome.json_ok THEN Str(THERE)
              ELSE IF outcome.has_first_name THEN outcome.first_name
                   ELSE Str(THERE)
         ELSE Str(THERE)

\* The text send_welcome builds.
Welcome(name) ==
    <<"(wave) Hi, ">> \o Format(name)
    \o <<"! How can we help you today? Choose an option below or type your question:">>

\* The JSON body send_message posts.
SendPayload(recipient_id, message_text, quick_replies) ==
    [recipient |-> [id |-> recipient_id],
     message |->
        IF quick_replies # <<>>
        THEN [text |-> message_text,
              quick_replies |->
                 [k \in 1..Len(quick_replies) |->
                     [content_type |-> "text",
                      title |-> quick_replies[k].title,
                      payload |-> quick_replies[k].payload]]]
        ELSE [text |-> message_text],
     messaging_type |-> "RESPONSE"]

\* send_message: an exception of requests.post is not caught; a status other
\* than 200 is logged.
send_message_raises(outcome) == outcome.raises

\* PAYLOAD_REPLIES.get(button_payload, FALLBACK_MESSAGE)
ReplyForPayload(button_payload) ==
    IF button_payload \in DOMAIN PAYLOAD_REPLIES
    THEN PAYLOAD_REPLIES[button_payload]
    ELSE FALLBACK_MESSAGE

\* Mutant: the greeting test without .lower().
IsGreetingCaseSensitive(user_text) ==
    \E k \in 1..Len(GREETING_KEYWORDS) :
        Contains(GREETING_KEYWORDS[k], Strip(user_text))

\* any(keyword in user_text_lower for keyword in GREETING_KEYWORDS), with
\* user_text_lower = user_text.lower().strip()
IsGreeting(user_text) ==
    LET user_text_lower == Strip(Lower(user_text))
    IN  \E k \in 1..Len(GREETING_KEYWORDS) :
            Contains(GREETING_KEYWORDS[k], user_text_lower)

\* Mutant: the echo test placed after the quick-reply branch.
ClassifyEchoLate(e) ==
    IF ~e.hasMessage THEN "continue"
    ELSE IF e.hasQuickReply THEN "quick_reply"
    ELSE IF e.is_echo THEN "continue"
    ELSE IF ~(e.hasText /\ e.text # <<>>) THEN "continue"
    ELSE IF IsGreeting(e.text) THEN "welcome"
    ELSE "lookup"

\* Mutant: the text branches placed before the quick-reply branch.
ClassifyTextFirst(e) ==
    IF ~e.hasMessage THEN "continue"
    ELSE IF e.is_echo THEN "continue"
    ELSE IF e.hasText /\ e.text # <<>>
         THEN IF IsGreeting(e.text) THEN "welcome" ELSE "lookup"
    ELSE IF e.hasQuickReply THEN "quick_reply"
    ELSE "continue"

\* The branch of the loop body a sub-event takes.
Classify(e) ==
    IF ~e.hasMessage THEN "continue"
    ELSE IF e.is_echo THEN "continue"
    ELSE IF e.hasQuickReply THEN "quick_reply"
    ELSE IF ~(e.hasText /\ e.text # <<>>) THEN "continue"
    ELSE IF IsGreeting(e.text) THEN "welcome"
    ELSE "lookup"

\* Mutant: the list visited from its end.
OrderReversed(n) == [k \in 1..n |-> n + 1 - k]

\* The order in which a for loop visits a list of n items.
Order(n) == [k \in 1..n |-> k]

\* -------------------------------------------------------------- state
VARIABLES
    data,        \* the POSTed JSON: its object field and the shape of entry[]
    pc,          \* where handle_message is: idle, loop, name, sheet, send,
                 \* end (of one iteration), done
    i,           \* iteration of the outer loop (over data["entry"])
    j,           \* iteration of the inner loop (over entry["messaging"])
    event,       \* the sub-event bound by the current iteration
    profile,     \* what the Graph API did for this sub-event
    name,        \* what get_user_name returned for this sub-event
    sheet,       \* what the Sheets API did for this sub-event
    sheet_reply, \* what find_reply_from_sheet returned for this sub-event
    out,         \* the arguments of the send_message call of this sub-event
    wire,        \* the body posted to the Send API, and what the API did
    calls,       \* the external calls made for this sub-event, in order
    seen,        \* history: the sub-events bound so far, each with its place
    sent,        \* history: the places of the send_message calls, in order
    response     \* the HTTP response of the delivery

vars == <<data, pc, i, j, event, profile, name, sheet, sheet_reply, out, wire,
          calls, seen, sent, response>>

NoData == [object |-> "", entry |-> <<>>]
NoEvent == NoMessage("")
NoProfile == [raises |-> FALSE, status_code |-> 0, json_ok |-> FALSE,
              has_first_name |-> FALSE, first_name |-> None]
NoSheet == [raises |-> FALSE, values |-> <<>>]
NoOut == [recipient_id |-> "", message_text |-> <<>>, quick_replies |-> <<>>]
NoWire == [posted |-> FALSE, body |-> SendPayload("", <<>>, <<>>),
           raises |-> FALSE, status_code |-> 0]
NoResponse == [status |-> 0, body |-> ""]

OkResponse == [status |-> 200, body |-> "{status: ok}"]
NotPageResponse == [status |-> 404, body |-> "Not a page event"]
\* An exception that leaves handle_message: Flask answers 500.
ErrorResponse == [status |-> 500, body |-> "Internal Server Error"]

\* The place (entry, sub-event) that iteration jj of the inner loop, within
\* iteration ii of the outer loop, is at.
Place(ii, jj) ==
    LET entry == Order(Len(data.entry))[ii]
    IN  << entry, Order(data.entry[entry])[jj] >>

\* The place of the current iteration.
At == Place(i, j)

\* History: a sub-event that has a message body, is not an echo, and carries
\* a quick-reply payload or a non-empty text.
Qualifying(e) ==
    e.hasMessage /\ ~e.is_echo /\ (e.hasQuickReply \/ (e.hasText /\ e.text # <<>>))

Init ==
    /\ data = NoData
    /\ pc = "idle"
    /\ i = 0
    /\ j = 0
    /\ event = NoEvent
    /\ profile = NoProfile
    /\ name = None
    /\ sheet = NoSheet
    /\ sheet_reply = None
    /\ out = NoOut
    /\ wire = NoWire
    /\ calls = <<>>
    /\ seen = <<>>
    /\ sent = <<>>
    /\ response = NoResponse

\* POST /webhook arrives: data = request.get_json(); anything but a page
\* object is answered 404.
Post(object, shape) ==
    /\ pc = "idle"
    /\ data' = [object |-> object, entry |-> shape]
    /\ IF object # "page"
       THEN /\ pc' = "done"
            /\ response' = NotPageResponse
            /\ i' = i
       ELSE /\ pc' = "loop"
            /\ response' = response
            /\ i' = 1
    /\ UNCHANGED <<j, event, profile, name, sheet, sheet_reply, out, wire,
                   calls, seen, sent>>

\* The inner loop is exhausted: the outer loop takes the next entry.
NextEntry ==
    /\ pc = "loop"
    /\ i <= Len(data.entry)
    /\ j = data.entry[Order(Len(data.entry))[i]]
    /\ i' = i + 1
    /\ j' = 0
    /\ UNCHANGED <<data, pc, event, profile, name, sheet, sheet_reply, out,
                   wire, calls, seen, sent, response>>

\* One iteration of the inner loop, up to its first external call: the
\* sub-event e is bound and classified.
Dispatch(e) ==
    /\ pc = "loop"
    /\ i <= Len(data.entry)
    /\ j < data.entry[Order(Len(data.entry))[i]]
    /\ j' = j + 1
    /\ event' = e
    /\ seen' = Append(seen, [at |-> Place(i, j + 1),
                             qualifying |-> Qualifying(e)])
    /\ LET branch == Classify(e)
       IN  /\ pc' = CASE branch = "continue"    -> "end"
                      [] branch = "quick_reply" -> "send"
                      [] branch = "welcome"     -> "name"
                      [] branch = "lookup"      -> "sheet"
           /\ out' = IF branch = "quick_reply"
                     THEN [recipient_id |-> e.sender,
                           message_text |-> ReplyForPayload(e.payload),
                           quick_replies |-> QUICK_REPLY_BUTTONS]
                     ELSE NoOut
    /\ UNCHANGED <<data, i, profile, name, sheet, sheet_reply, wire, calls,
                   sent, response>>

\* send_welcome, first half: get_user_name asks the Graph API.
GetUserName(outcome) ==
    /\ pc = "name"
    /\ profile' = outcome
    /\ calls' = Append(calls, "get_user_name")
    /\ LET r == get_user_name(outcome)
       IN  IF r.t = "raise"
           THEN /\ pc' = "done"
                /\ response' = ErrorResponse
                /\ UNCHANGED <<name, out>>
           ELSE /\ pc' = "send"
                /\ name' = r
                /\ out' = [recipient_id |-> event.sender,
                           message_text |-> Welcome(r),
                           quick_replies |-> QUICK_REPLY_BUTTONS]
                /\ response' = response
    /\ UNCHANGED <<data, i, j, event, sheet, sheet_reply, wire, seen, sent>>

\* find_reply_from_sheet asks the Sheets API; then `if sheet_reply:` picks
\* the sheet's reply or the fallback.
FindReply(outcome) ==
    /\ pc = "sheet"
    /\ sheet' = outcome
    /\ calls' = Append(calls, "get_sheet_data")
    /\ LET r == find_reply_from_sheet(event.text, outcome)
       IN  IF r.t = "raise"
           THEN /\ pc' = "done"
                /\ response' = ErrorResponse
                /\ UNCHANGED <<sheet_reply, out>>
           ELSE /\ pc' = "send"
                /\ sheet_reply' = r
                /\ out' = [recipient_id |-> event.sender,
                           message_text |-> IF Truthy(r) THEN r.v
                                            ELSE FALLBACK_MESSAGE,
                           quick_replies |-> QUICK_REPLY_BUTTONS]
                /\ response' = response
    /\ UNCHANGED <<data, i, j, event, profile, name, wire, seen, sent>>

\* send_message posts to the Send API.
SendMessage(outcome) ==
    /\ pc = "send"
    /\ calls' = Append(calls, "send_message")
    /\ sent' = Append(sent, At)
    /\ wire' = [posted |-> TRUE,
                body |-> SendPayload(out.recipient_id, out.message_text,
                                     out.quick_replies),
                raises |-> outcome.raises,
                status_code |-> outcome.status_code]
    /\ IF send_message_raises(outcome)
       THEN /\ pc' = "done"
            /\ response' = ErrorResponse
       ELSE /\ pc' = "end"
            /\ response' = response
    /\ UNCHANGED <<data, i, j, event, profile, name, sheet, sheet_reply, out,
                   seen>>

\* The iteration ends (a `continue`, or the end of the loop body): its
\* local values are dropped and the inner loop goes on.
EndIteration ==
    /\ pc = "end"
    /\ pc' = "loop"
    /\ event' = NoEvent
    /\ profile' = NoProfile
    /\ name' = None
    /\ sheet' = NoSheet
    /\ sheet_reply' = None
    /\ out' = NoOut
    /\ wire' = NoWire
    /\ calls' = <<>>
    /\ UNCHANGED <<data, i, j, seen, sent, response>>

\* Both loops are exhausted: return jsonify({"status": "ok"}), 200.
Return ==
    /\ pc = "loop"
    /\ i > Len(data.entry)
    /\ pc' = "done"
    /\ response' = OkResponse
    /\ UNCHANGED <<data, i, j, event, profile, name, sheet, sheet_reply, out,
                   wire, calls, seen, sent>>

Next ==
    \/ \E object \in {"page", "user"}, shape \in Shapes : Post(object, shape)
    \/ NextEntry
    \/ \E e \in Events : Dispatch(e)
    \/ \E outcome \in ProfileOutcomes : GetUserName(outcome)
    \/ \E outcome \in SheetOutcomes : FindReply(outcome)
    \/ \E outcome \in SendOutcomes : SendMessage(outcome)
    \/ EndIteration
    \/ Return

Spec == Init /\ [][Next]_vars

\* ------------------------------------------------------------- claims
\* Place a comes before place b in the payload (entries in order, then the
\* sub-events of one entry in order).
Before(a, b) == a[1] < b[1] \/ (a[1] = b[1] /\ a[2] < b[2])

\* The places of a page payload of the given shape.
PlacesOf(shape) ==
    UNION { { <<m, n>> : n \in 1..shape[m] } : m \in 1..Len(shape) }

\* How many times send_message was called for place p.
SendsAt(p) == Cardinality({ k \in 1..Len(sent) : sent[k] = p })

InCalls(fn) == \E k \in 1..Len(calls) : calls[k] = fn

\* The bound sub-event is a message that is not an echo.
Live == event.hasMessage /\ ~event.is_echo

\* The bound sub-event is on the text path.
OnTextPath == Live /\ ~event.hasQuickReply /\ event.hasText /\ event.text # <<>>

\* The text of the bound sub-event contains a greeting keyword, in any case.
HasGreeting ==
    \E k \in 1..Len(GREETING_KEYWORDS) :
        Contains(GREETING_KEYWORDS[k], Lower(event.text))

\* The welcome text for a resolved name.
WelcomeFor(n) ==
    <<"(wave) Hi, ">> \o n
    \o <<"! How can we help you today? Choose an option below or type your question:">>

\* The four standard buttons, as they go out on the wire.
StandardButtonsOnWire ==
    /\ "quick_replies" \in DOMAIN wire.body.message
    /\ Len(wire.body.message.quick_replies) = 4
    /\ \A k \in 1..4 :
          /\ wire.body.message.quick_replies[k].content_type = "text"
          /\ wire.body.message.quick_replies[k].title = QUICK_REPLY_BUTTONS[k].title
          /\ wire.body.message.quick_replies[k].payload = QUICK_REPLY_BUTTONS[k].payload

\* C1: no sub-event ever has two send_message calls, and when a page
\* delivery is over every sub-event of the payload has caused exactly one
\* send_message call if it qualifies and none otherwise.  A sub-event the
\* loop never bound can be any sub-event, so the count has to be right
\* for whatever it is.
C1_OneSendPerQualifyingEvent ==
    /\ \A p \in PlacesOf(data.entry) : SendsAt(p) <= 1
    /\ (pc = "done" /\ data.object = "page") =>
          \A p \in PlacesOf(data.entry) :
              IF \E k \in 1..Len(seen) : seen[k].at = p
              THEN \A k \in 1..Len(seen) :
                      seen[k].at = p =>
                          SendsAt(p) = IF seen[k].qualifying THEN 1 ELSE 0
              ELSE \A e \in Events :
                      SendsAt(p) = IF Qualifying(e) THEN 1 ELSE 0

\* C2: a sub-event whose message is flagged is_echo causes no call of
\* send_message, get_user_name or get_sheet_data, whatever else it carries
\* and wherever it is in the batch.
C2_EchoNeverCalls ==
    (event.hasMessage /\ event.is_echo) =>
        /\ calls = <<>>
        /\ pc \in {"end", "loop"}
        /\ ~wire.posted
        /\ profile = NoProfile
        /\ sheet = NoSheet
        /\ SendsAt(At) = 0

C2_Witness ==
    /\ pc = "end"
    /\ event.is_echo /\ event.hasQuickReply /\ event.hasText
    /\ HasGreeting
    /\ Len(seen) = 2

\* C3: a send that fails (the Send API answers with a status other than 200,
\* or the request itself raises) is swallowed by send_message: the handler
\* goes on with the loop, no error reaches the response, and the send is not
\* tried again.
C3_FailedSendSwallowed ==
    (wire.posted /\ (wire.raises \/ wire.status_code # 200)) =>
        /\ pc = "end"
        /\ response # ErrorResponse
        /\ SendsAt(At) = 1

\* C4: a delivery of a page payload always ends with the acknowledgment
\* ({"status": "ok"}, 200), whatever the external calls did.
C4_AlwaysAcknowledged ==
    (pc = "done" /\ data.object = "page") => response = OkResponse

\* C5: a text that contains a greeting keyword, in any letter case and with
\* any text around it, is answered with the personalized welcome message, and
\* the sheet is not queried for that sub-event.
C5_GreetingBeforeSheet ==
    (OnTextPath /\ HasGreeting) =>
        /\ pc \in {"name", "send", "end", "done"}
        /\ ~InCalls("get_sheet_data")
        /\ sheet = NoSheet
        /\ pc # "name" =>
              /\ InCalls("get_user_name")
              /\ out.message_text = WelcomeFor(Format(name))
              /\ out.quick_replies = QUICK_REPLY_BUTTONS
        /\ wire.posted =>
              /\ wire.body.message.text = WelcomeFor(Format(name))
              /\ StandardButtonsOnWire

C5_Witness ==
    /\ pc = "end"
    /\ wire.posted
    /\ event.text = <<"P", "H", "i">>

\* Row k of the sheet (the data rows are values[2], values[3], ...) has a
\* keyword that is, as it stands in the sheet and compared without regard to
\* case, in the bound text.
RawMatch(k) ==
    /\ Len(sheet.values[k]) >= 2
    /\ Contains(Lower(sheet.values[k][1]), Lower(event.text))

\* Row k of the sheet is usable for the bound text: it has two columns, and
\* its keyword, trimmed and lower-cased, is not empty and is in the
\* lower-cased text.
Usable(k) ==
    /\ Len(sheet.values[k]) >= 2
    /\ Strip(Lower(sheet.values[k][1])) # <<>>
    /\ Contains(Strip(Lower(sheet.values[k][1])), Lower(event.text))

\* The sheet was read for the bound sub-event and returned its values.
LookupDone == OnTextPath /\ ~HasGreeting /\ InCalls("get_sheet_data") /\ ~sheet.raises

\* C6, as claimed: if some row's keyword is a case-insensitive substring of
\* the text, the reply sent is exactly the reply column of the first such row.
C6_FirstMatchingRowWins ==
    (LookupDone /\ \E k \in 2..Len(sheet.values) : RawMatch(k)) =>
        LET first == CHOOSE k \in 2..Len(sheet.values) :
                        RawMatch(k) /\ \A m \in 2..(k - 1) : ~RawMatch(m)
        IN  out.message_text = sheet.values[first][2]

\* C6, amended: among the rows with two columns whose trimmed, lower-cased
\* keyword is not empty and is in the lower-cased text, the first one in
\* sheet order decides: the reply sent is its trimmed reply column, or the
\* fallback message when that trimmed reply is empty.
C6_FirstUsableRowWins ==
    (LookupDone /\ \E k \in 2..Len(sheet.values) : Usable(k)) =>
        LET first == CHOOSE k \in 2..Len(sheet.values) :
                        Usable(k) /\ \A m \in 2..(k - 1) : ~Usable(m)
            reply == Strip(sheet.values[first][2])
            text  == IF reply # <<>> THEN reply ELSE FALLBACK_MESSAGE
        IN  /\ pc \in {"send", "end", "done"}
            /\ out.message_text = text
            /\ wire.posted => wire.body.message.text = text

C6_Witness ==
    /\ LookupDone
    /\ wire.posted
    /\ \E k, m \in 2..Len(sheet.values) :
          /\ k < m /\ Usable(k) /\ Usable(m)
          /\ Strip(sheet.values[k][2]) # <<>>
          /\ Strip(sheet.values[m][2]) # <<>>
          /\ Strip(sheet.values[k][2]) # Strip(sheet.values[m][2])

\* C7: when the sheet lookup raises, find_reply_from_sheet returns None
\* without raising and the sub-event gets exactly one reply, the fallback.
C7_SheetErrorGivesFallback ==
    sheet.raises =>
        /\ sheet_reply = None
        /\ out.message_text = FALLBACK_MESSAGE
        /\ out.quick_replies = QUICK_REPLY_BUTTONS
        /\ \/ pc = "send" /\ calls = <<"get_sheet_data">> /\ SendsAt(At) = 0
           \/ /\ pc \in {"end", "done"}
              /\ calls = <<"get_sheet_data", "send_message">>
              /\ SendsAt(At) = 1
              /\ wire.posted
              /\ wire.body.message.text = FALLBACK_MESSAGE

C7_Witness ==
    /\ sheet.raises
    /\ pc = "end"
    /\ wire.posted

\* C8: get_user_name always returns a non-empty name, whatever the Graph API
\* did, and "there" whenever the lookup failed.
C8_NameNeverEmpty ==
    InCalls("get_user_name") =>
        /\ name.t = "str"
        /\ name.v # <<>>
        /\ (profile.raises \/ profile.status_code # 200 \/ ~profile.json_ok
              \/ ~profile.has_first_name) => name.v = THERE

\* C9: a quick-reply tap (not an echo) is answered from PAYLOAD_REPLIES, or
\* with the fallback message when the code is unknown, with the four standard
\* buttons, whatever text the message also carries; the greeting rule, the
\* user directory and the sheet are not consulted.
C9_QuickReplyFirst ==
    (Live /\ event.hasQuickReply) =>
        LET text == IF event.payload \in {"PRICE", "HOURS", "LOCATION", "CONTACT"}
                    THEN PAYLOAD_REPLIES[event.payload]
                    ELSE FALLBACK_MESSAGE
        IN  /\ pc \in {"send", "end", "done"}
            /\ out.message_text = text
            /\ out.quick_replies = QUICK_REPLY_BUTTONS
            /\ ~InCalls("get_user_name")
            /\ ~InCalls("get_sheet_data")
            /\ profile = NoProfile
            /\ sheet = NoSheet
            /\ wire.posted =>
                  /\ wire.body.message.text = text
                  /\ StandardButtonsOnWire

C9_Witness ==
    /\ pc = "end"
    /\ wire.posted
    /\ event.hasQuickReply
    /\ event.payload = "UNKNOWN"
    /\ event.hasText
    /\ HasGreeting

\* C10: the sub-events of one delivery are handled one after the other in the
\* order of the payload: they are bound in payload order, the send_message
\* calls are in the order of the sub-events that caused them, and every call
\* made so far belongs to the sub-event being handled or to an earlier one.
C10_InPayloadOrder ==
    /\ \A k \in 1..Len(seen) :
          /\ seen[k].at \in PlacesOf(data.entry)
          /\ Cardinality({ p \in PlacesOf(data.entry) : Before(p, seen[k].at) }) = k - 1
    /\ \A k, m \in 1..Len(sent) : k < m => Before(sent[k], sent[m])
    /\ \A k \in 1..Len(sent) :
          /\ \E m \in 1..Len(seen) : seen[m].at = sent[k] /\ seen[m].qualifying
          /\ pc \in {"name", "sheet", "send"} => Before(sent[k], At)
          /\ pc = "end" => (sent[k] = At \/ Before(sent[k], At))

C10_Witness ==
    /\ pc = "done"
    /\ response = OkResponse
    /\ Len(data.entry) = 2
    /\ Len(sent) = 2

====
